---- MODULE Spec2Model ----
(***************************************************************************)
(* State-machine model of the ScreenGuard content script: the PII          *)
(* detector (model-backed with regular-expression fallback), the scan      *)
(* pass, the overlay registry, the privacy score, the debounced            *)
(* MutationObserver and the runtime message handler.                       *)
(***************************************************************************)
EXTENDS Integers, Sequences, FiniteSets, TLC

\* ------------------------------------------------------------------------
\* CONFIG
\* ------------------------------------------------------------------------
PII_TYPES == <<"email", "phone", "ssn", "credit_card", "address", "password", "api_key">>

PiiTypeSet == {PII_TYPES[i] : i \in 1..Len(PII_TYPES)}

SCORE_WEIGHTS ==
  [t \in PiiTypeSet |->
     CASE t = "password" -> 25
       [] t = "ssn" -> 20
       [] t = "credit_card" -> 20
       [] t = "api_key" -> 15
       [] t = "email" -> 10
       [] t = "phone" -> 8
       [] t = "address" -> 10]

RESCAN_DELAY == 2000

MIN_TEXT_LENGTH == 5

EXCLUDED_TAGS == {"script", "style", "noscript", "iframe"}

\* ------------------------------------------------------------------------
\* Generic helpers
\* ------------------------------------------------------------------------
Min(a, b) == IF a <= b THEN a ELSE b

Max(a, b) == IF a >= b THEN a ELSE b

RECURSIVE SeqSum(_)
SeqSum(s) == IF s = <<>> THEN 0 ELSE Head(s) + SeqSum(Tail(s))

RECURSIVE Flatten(_)
Flatten(ss) == IF ss = <<>> THEN <<>> ELSE Head(ss) \o Flatten(Tail(ss))

Range(s) == {s[i] : i \in 1..Len(s)}

\* String.prototype.slice(a, b) on a text held as a sequence of characters
\* (JavaScript offsets are 0-based, b exclusive).
Slice(text, a, b) == SubSeq(text, a + 1, b)

\* ------------------------------------------------------------------------
\* Character classes of the fallback patterns
\* ------------------------------------------------------------------------
Digits == {"0", "1", "2", "3", "4", "5", "6", "7", "8", "9"}

Lower == {"a", "b", "c", "d", "e", "f", "g", "h", "i", "j", "k", "l", "m",
          "n", "o", "p", "q", "r", "s", "t", "u", "v", "w", "x", "y", "z"}

Upper == {"A", "B", "C", "D", "E", "F", "G", "H", "I", "J", "K", "L", "M",
          "N", "O", "P", "Q", "R", "S", "T", "U", "V", "W", "X", "Y", "Z"}

Alpha == Lower \cup Upper

AlNum == Alpha \cup Digits

\* \w of a JavaScript regular expression
WordChars == AlNum \cup {"_"}

\* \s, restricted to the white space that occurs in the texts of the model
Space == {" "}

\* ------------------------------------------------------------------------
\* A backtracking matcher with JavaScript's priority order.  A pattern is
\*   [k |-> "cls", s |-> S]                 one character of class S
\*   [k |-> "wb"]                           \b
\*   [k |-> "seq", l |-> <<p1, ..., pn>>]   concatenation
\*   [k |-> "rep", r |-> p, lo |-> m, hi |-> n]   greedy p{m,n}
\* Match returns the positions (0-based offsets) at which a match of the
\* pattern started at offset i can end, in the order backtracking tries them.
\* ------------------------------------------------------------------------
Cls(S) == [k |-> "cls", s |-> S]

Wb == [k |-> "wb"]

Cat(l) == [k |-> "seq", l |-> l]

Rep(p, lo, hi) == [k |-> "rep", r |-> p, lo |-> lo, hi |-> hi]

Opt(p) == Rep(p, 0, 1)

\* stands for an unbounded upper repetition count ({n,} and +)
Unbounded == -1

IsWordAt(text, i) == i >= 0 /\ i < Len(text) /\ text[i + 1] \in WordChars

RECURSIVE Match(_, _, _)
RECURSIVE MatchSeq(_, _, _, _)
RECURSIVE MatchRep(_, _, _, _)
RECURSIVE MatchEach(_, _, _, _, _)

Match(p, text, i) ==
  CASE p.k = "cls" -> IF i < Len(text) /\ text[i + 1] \in p.s THEN <<i + 1>> ELSE <<>>
    [] p.k = "wb" -> IF IsWordAt(text, i - 1) # IsWordAt(text, i) THEN <<i>> ELSE <<>>
    [] p.k = "seq" -> MatchSeq(p.l, 1, text, i)
    [] p.k = "rep" -> MatchRep(p, 0, text, i)

\* continue each end position in ends with f, keeping the order
MatchEach(ends, kind, p, n, text) ==
  IF ends = <<>> THEN <<>>
  ELSE (IF kind = "seq" THEN MatchSeq(p, n, text, Head(ends))
                        ELSE MatchRep(p, n, text, Head(ends)))
       \o MatchEach(Tail(ends), kind, p, n, text)

MatchSeq(l, n, text, i) ==
  IF n > Len(l) THEN <<i>>
  ELSE MatchEach(Match(l[n], text, i), "seq", l, n + 1, text)

\* n repetitions are done; greedy: one more repetition is tried first
MatchRep(p, n, text, i) ==
  LET more == IF p.hi = Unbounded \/ n < p.hi
              THEN MatchEach(SelectSeq(Match(p.r, text, i), LAMBDA j : j > i),
                             "rep", p, n + 1, text)
              ELSE <<>>
      stop == IF n >= p.lo THEN <<i>> ELSE <<>>
  IN  more \o stop

\* RegExp exec from lastIndex: the leftmost start at or after `from' with a
\* match, and the first end backtracking finds; <<>> when there is none.
RECURSIVE ExecFrom(_, _, _)
ExecFrom(p, text, from) ==
  IF from > Len(text) THEN <<>>
  ELSE LET ends == Match(p, text, from)
       IN  IF ends # <<>> THEN <<from, Head(ends)>>
           ELSE ExecFrom(p, text, from + 1)

\* String.prototype.matchAll with a /g pattern: <<start, end>> of every match
RECURSIVE MatchAll(_, _, _)
MatchAll(p, text, from) ==
  LET m == ExecFrom(p, text, from)
  IN  IF m = <<>> THEN <<>>
      ELSE <<m>> \o MatchAll(p, text, IF m[2] = m[1] THEN m[2] + 1 ELSE m[2])

\* ------------------------------------------------------------------------
\* PiiDetector.patterns
\* ------------------------------------------------------------------------
Sep == Opt(Cls({"-", "."} \cup Space))

patterns ==
  [email |->
     Cat(<<Wb, Rep(Cls(AlNum \cup {".", "_", "%", "+", "-"}), 1, Unbounded),
           Cls({"@"}), Rep(Cls(AlNum \cup {".", "-"}), 1, Unbounded),
           Cls({"."}), Rep(Cls(Alpha), 2, Unbounded), Wb>>),
   phone |->
     Cat(<<Opt(Cat(<<Opt(Cls({"+"})), Rep(Cls(Digits), 1, 3), Sep>>)),
           Opt(Cls({"("})), Rep(Cls(Digits), 3, 3), Opt(Cls({")"})), Sep,
           Rep(Cls(Digits), 3, 3), Sep, Rep(Cls(Digits), 4, 4), Wb>>),
   ssn |->
     Cat(<<Wb, Rep(Cls(Digits), 3, 3), Cls({"-"}), Rep(Cls(Digits), 2, 2),
           Cls({"-"}), Rep(Cls(Digits), 4, 4), Wb>>),
   credit_card |->
     Cat(<<Wb, Rep(Cat(<<Rep(Cls(Digits), 4, 4), Opt(Cls({"-"} \cup Space))>>), 3, 3),
           Rep(Cls(Digits), 4, 4), Wb>>),
   api_key |->
     Cat(<<Wb, Rep(Cls(AlNum), 32, Unbounded), Wb>>)]

\* Object.entries(this.patterns): insertion order
PatternOrder == <<"email", "phone", "ssn", "credit_card", "api_key">>

\* start counted from 1
regexFallbackOneBased(text) ==
  Flatten([n \in 1..Len(PatternOrder) |->
    LET type == PatternOrder[n]
        ms == MatchAll(patterns[type], text, 0)
    IN  [j \in 1..Len(ms) |->
           LET match0 == Slice(text, ms[j][1], ms[j][2])
               index == ms[j][1] + 1
           IN  [type |-> type, value |-> match0,
                start |-> index, end |-> index + Len(match0)]]])

\* PiiDetector.regexFallback: match[0] and match.index of every match
regexFallback(text) ==
  Flatten([n \in 1..Len(PatternOrder) |->
    LET type == PatternOrder[n]
        ms == MatchAll(patterns[type], text, 0)
    IN  [j \in 1..Len(ms) |->
           LET match0 == Slice(text, ms[j][1], ms[j][2])
               index == ms[j][1]
           IN  [type |-> type, value |-> match0,
                start |-> index, end |-> index + Len(match0)]]])

\* ------------------------------------------------------------------------
\* The page: text nodes (units), their texts and their layout
\* ------------------------------------------------------------------------
T_EmailSsn == <<"a", "@", "b", ".", "c", "o", " ",
                "1", "2", "3", "-", "4", "5", "-", "6", "7", "8", "9">>

T_Password == <<"p", "w", ":", " ", "h", "u", "n", "t", "e", "r", "2", "!">>

T_TwoEmails == <<"a", "@", "b", ".", "c", "o", " ", "a", "@", "b", ".", "c", "o">>

T_Short == <<" ", "h", "i", " ">>

T_Script == <<"v", "a", "r", " ", "m", "=", "'", "a", "@", "b", ".", "c", "o", "'">>

\* Text nodes of document.body in document order, with the tag of the
\* parent element.  Unit 1 is edited by the page (characterData), unit 2 is
\* inserted and removed by the page (childList); units 3 and 4 are static.
Units == 1..4

ParentTag == <<"p", "div", "span", "script">>

TextChoices == <<{T_EmailSsn, T_Password}, {T_TwoEmails}, {T_Short}, {T_Script}>>

InitialText == <<T_EmailSsn, T_TwoEmails, T_Short, T_Script>>

Detachable == {2}

\* String.prototype.trim
RECURSIVE TrimLeft(_)
TrimLeft(t) == IF t # <<>> /\ Head(t) \in Space THEN TrimLeft(Tail(t)) ELSE t

RECURSIVE TrimRight(_)
TrimRight(t) ==
  IF t # <<>> /\ t[Len(t)] \in Space THEN TrimRight(SubSeq(t, 1, Len(t) - 1)) ELSE t

Trim(t) == TrimRight(TrimLeft(t))

\* String.prototype.indexOf: 0-based offset of the first occurrence, or -1
IndexOf(text, value) ==
  LET hits == {i \in 0..(Len(text) - Len(value)) : Slice(text, i, i + Len(value)) = value}
  IN  IF hits = {} THEN -1 ELSE CHOOSE i \in hits : \A j \in hits : i <= j

\* Layout: a unit is a block of lines of LineWidth characters; the viewport
\* is scrolled by scrollY lines.
LineWidth == 8

UnitTop(u) == (u - 1) * 4

\* Range.getClientRects for the characters [a, b) of unit u: one rectangle
\* per rendered line the span touches; none when the unit is not rendered.
GetClientRects(u, a, b, isAttached, sy) ==
  IF ~isAttached \/ b <= a THEN <<>>
  ELSE LET first == a \div LineWidth
           last == (b - 1) \div LineWidth
       IN  [n \in 1..(last - first + 1) |->
              LET line == first + n - 1
                  from == Max(a, line * LineWidth)
                  to == Min(b, (line + 1) * LineWidth)
              IN  [left |-> from - line * LineWidth, top |-> UnitTop(u) + line - sy,
                   width |-> to - from, height |-> 1]]

\* Range.getBoundingClientRect over the whole contents of unit u
GetBoundingClientRect(u, len, isAttached, sy) ==
  IF ~isAttached \/ len = 0 THEN [left |-> 0, top |-> 0, width |-> 0, height |-> 0]
  ELSE [left |-> 0, top |-> UnitTop(u) - sy,
        width |-> Min(len, LineWidth), height |-> (len - 1) \div LineWidth + 1]

\* ------------------------------------------------------------------------
\* The language-model backend (LanguageModel / session.prompt)
\* ------------------------------------------------------------------------
Finding(type, text, a, b) == [type |-> type, value |-> Slice(text, a, b), start |-> a, end |-> b]

\* what a well-behaved model finds in each text
ModelFindings(text) ==
  CASE text = T_EmailSsn -> <<Finding("email", text, 0, 6), Finding("ssn", text, 7, 18)>>
    [] text = T_Password -> <<Finding("password", text, 4, 12)>>
    [] text = T_TwoEmails -> <<Finding("email", text, 0, 6), Finding("email", text, 7, 13)>>
    [] OTHER -> <<>>

\* a finding the text does not contain
Hallucinated == [type |-> "phone", value |-> <<"5", "5", "5", "0", "1", "0", "0">>,
                 start |-> 0, end |-> 7]

ModelBehaviours == {"faithful", "hallucinate", "reject", "garbage", "notArray"}

\* outcome of session.prompt under each behaviour of the backend: the
\* promise rejects, or resolves with a string that JSON.parse rejects
\* ("garbage") or parses to an object with the given pii_found
Prompt(behaviour, text) ==
  CASE behaviour = "reject" -> [k |-> "reject"]
    [] behaviour = "garbage" -> [k |-> "garbage"]
    [] behaviour = "notArray" -> [k |-> "json", isArray |-> FALSE, pii_found |-> <<>>]
    [] behaviour = "hallucinate" ->
         [k |-> "json", isArray |-> TRUE, pii_found |-> <<Hallucinated>> \o ModelFindings(text)]
    [] OTHER -> [k |-> "json", isArray |-> TRUE, pii_found |-> ModelFindings(text)]

\* ------------------------------------------------------------------------
\* Bounds
\* ------------------------------------------------------------------------
\* scan passes that may be suspended at the same time
MaxPasses == 2

\* ------------------------------------------------------------------------
\* State
\* ------------------------------------------------------------------------
VARIABLES
  boot,             \* position of loadSettings().then(initDetector)
  isEnabled,        \* state.isEnabled
  isInitialized,    \* state.isInitialized
  detIsInitialized, \* state.detector.isInitialized
  useRegexFallback, \* state.detector.useRegexFallback
  session,          \* state.detector.session: "null" or "session"
  enabledFilters,   \* state.enabledFilters
  processedNodes,   \* state.processedNodes
  maskedElements,   \* state.maskedElements: unit -> sequence of overlays
  bodyOverlays,     \* ids of the overlay elements attached to document.body
  badge,            \* the privacy badge element is in document.body
  privacyScore,     \* state.privacyScore
  piiCounts,        \* state.piiCounts
  passes,           \* the suspended scanPage invocations, oldest first
  observer,         \* state.observer is set and observing
  rescanTimeout,    \* window.rescanTimeout: ms left of the pending timer, or NoTimer
  attached,         \* units whose parent element is in the document
  textOf,           \* textContent of every unit
  scrollY,          \* scroll position of the viewport, in lines
  model,            \* how the language model answers prompts
  acquisitions,     \* history: calls of LanguageModel.availability by init()
  rejected,         \* history: some detectPII call rejected instead of returning
  quiet,            \* history: ms since the observer last saw a qualifying mutation
  stable,           \* history: results of the passes completed in a row, undisturbed
  isScrolling,      \* the scroll listener's flag: its animation frame is requested
  rafCallbacks,     \* requested animation frames that will run updateOverlayPositions
  arg,              \* the argument of a function called on its own
  ret,              \* what that call returned
  effects,          \* what the step just taken sent to the background and pruned
  saved,            \* what the settings page last saved, and its notification
  popup             \* the popup: its toggles, the storage it writes, its handlers

vars == <<boot, isEnabled, isInitialized, detIsInitialized, useRegexFallback, session,
          enabledFilters, processedNodes, maskedElements, bodyOverlays, badge,
          privacyScore, piiCounts, passes, observer, rescanTimeout, attached, textOf,
          scrollY, model, acquisitions, rejected, quiet, stable, isScrolling,
          rafCallbacks, arg, ret, effects, saved, popup>>

NoTimer == -1

NoMasks == [u \in {} |-> <<>>]

ZeroCounts == [t \in PiiTypeSet |-> 0]

Undisturbed == [dirty |-> FALSE, results |-> <<>>]

NoEffects == [sent |-> <<>>, pruned |-> {}]

NoSave == [filters |-> [t \in {} |-> TRUE], notice |-> "none"]

\* the popup after its loadSettings: the toggles show the stored settings;
\* no handler is running, no storage call and no tab message is pending
NoOutcome ==
  [kind |-> "none", failed |-> FALSE, before |-> TRUE, display |-> TRUE,
   error |-> FALSE, sent |-> <<>>]

PopupOpened ==
  [main |-> TRUE, filter |-> TRUE, stored |-> [enabled |-> TRUE, filter |-> TRUE],
   handlers |-> [h \in {} |-> NoOutcome], ops |-> <<>>, tab |-> <<>>, last |-> NoOutcome]

\* The part of the state the content script's functions read and write, as
\* one record, so that a handler is the composition of the functions it calls.
\* A handler starts with nothing sent and nothing pruned.
Cur ==
  [boot |-> boot, isEnabled |-> isEnabled, isInitialized |-> isInitialized,
   detIsInitialized |-> detIsInitialized, useRegexFallback |-> useRegexFallback,
   session |-> session, enabledFilters |-> enabledFilters,
   processedNodes |-> processedNodes, maskedElements |-> maskedElements,
   bodyOverlays |-> bodyOverlays, badge |-> badge, privacyScore |-> privacyScore,
   piiCounts |-> piiCounts, passes |-> passes, observer |-> observer,
   rescanTimeout |-> rescanTimeout, acquisitions |-> acquisitions, rejected |-> rejected,
   quiet |-> quiet, stable |-> stable, effects |-> NoEffects]

Commit(st) ==
  /\ boot' = st.boot
  /\ isEnabled' = st.isEnabled
  /\ isInitialized' = st.isInitialized
  /\ detIsInitialized' = st.detIsInitialized
  /\ useRegexFallback' = st.useRegexFallback
  /\ session' = st.session
  /\ enabledFilters' = st.enabledFilters
  /\ processedNodes' = st.processedNodes
  /\ maskedElements' = st.maskedElements
  /\ bodyOverlays' = st.bodyOverlays
  /\ badge' = st.badge
  /\ privacyScore' = st.privacyScore
  /\ piiCounts' = st.piiCounts
  /\ passes' = st.passes
  /\ observer' = st.observer
  /\ rescanTimeout' = st.rescanTimeout
  /\ acquisitions' = st.acquisitions
  /\ rejected' = st.rejected
  /\ quiet' = st.quiet
  /\ stable' = st.stable
  /\ effects' = st.effects

\* the content script has been injected and has run its top level
PageLoaded ==
  /\ boot = "settings"
  /\ isEnabled = TRUE
  /\ isInitialized = FALSE
  /\ detIsInitialized = FALSE
  /\ useRegexFallback = FALSE
  /\ session = "null"
  /\ enabledFilters = [t \in PiiTypeSet |-> TRUE]
  /\ processedNodes = {}
  /\ maskedElements = NoMasks
  /\ bodyOverlays = {}
  /\ badge = FALSE
  /\ privacyScore = 100
  /\ piiCounts = ZeroCounts
  /\ passes = <<>>
  /\ observer = FALSE
  /\ rescanTimeout = NoTimer
  /\ attached = Units
  /\ textOf = InitialText
  /\ scrollY = 0
  /\ model = "none"
  /\ acquisitions = 0
  /\ rejected = FALSE
  /\ quiet = RESCAN_DELAY
  /\ stable = Undisturbed
  /\ isScrolling = FALSE
  /\ rafCallbacks = 0
  /\ effects = NoEffects
  /\ saved = NoSave
  /\ popup = PopupOpened

NoCall == "none"

Init == PageLoaded /\ arg = NoCall /\ ret = NoCall

\* ------------------------------------------------------------------------
\* Utility functions
\* ------------------------------------------------------------------------
\* getTextNodes(document.body): the TreeWalker visits the text nodes in the
\* document, in document order, and acceptNode rejects those of an excluded
\* parent and those whose trimmed text is shorter than MIN_TEXT_LENGTH.
getTextNodes ==
  SelectSeq([u \in Units |-> u],
            LAMBDA u : /\ u \in attached
                       /\ ParentTag[u] \notin EXCLUDED_TAGS
                       /\ Len(Trim(textOf[u])) >= MIN_TEXT_LENGTH)

\* resetPrivacyData left out of scanPage
resetPrivacyDataSkipped(st) == st

resetPrivacyData(st) == [st EXCEPT !.privacyScore = 100, !.piiCounts = ZeroCounts]

\* the penalty for repeats is not capped at the weight
ScoreOfUncapped(counts) ==
  LET penalty(t) ==
        IF counts[t] > 0
        THEN 10 * SCORE_WEIGHTS[t]
             + (IF counts[t] > 1 THEN (counts[t] - 1) * SCORE_WEIGHTS[t] * 3 ELSE 0)
        ELSE 0
      tenths == 1000 - SeqSum([i \in 1..Len(PII_TYPES) |-> penalty(PII_TYPES[i])])
  IN  Max(0, Min(100, (tenths + 5) \div 10))

\* the penalty for repeats is added instead of subtracted
ScoreOfRepeatBonus(counts) ==
  LET penalty(t) ==
        IF counts[t] > 0
        THEN 10 * SCORE_WEIGHTS[t]
             - (IF counts[t] > 1
                THEN Min((counts[t] - 1) * SCORE_WEIGHTS[t] * 3, 10 * SCORE_WEIGHTS[t])
                ELSE 0)
        ELSE 0
      tenths == 1000 - SeqSum([i \in 1..Len(PII_TYPES) |-> penalty(PII_TYPES[i])])
  IN  Max(0, Min(100, (tenths + 5) \div 10))

\* The score of a counts mapping.  The code computes in floating point with
\* steps of weight * 0.3; the same value is computed here exactly, in tenths.
\* Math.round rounds halves up.
ScoreOf(counts) ==
  LET penalty(t) ==
        IF counts[t] > 0
        THEN 10 * SCORE_WEIGHTS[t]
             + (IF counts[t] > 1
                THEN Min((counts[t] - 1) * SCORE_WEIGHTS[t] * 3, 10 * SCORE_WEIGHTS[t])
                ELSE 0)
        ELSE 0
      tenths == 1000 - SeqSum([i \in 1..Len(PII_TYPES) |-> penalty(PII_TYPES[i])])
  IN  Max(0, Min(100, (tenths + 5) \div 10))

\* the score is not recomputed
calculatePrivacyScoreStale(st) == st

calculatePrivacyScore(st) == [st EXCEPT !.privacyScore = ScoreOf(st.piiCounts)]

\* a score of 80 is not SAFE
getScoreColorAbove(score) ==
  IF score > 80 THEN "SAFE" ELSE IF score >= 50 THEN "MODERATE" ELSE "HIGH RISK"

\* getScoreColor reads state.privacyScore; the label of its result
getScoreColor(score) ==
  IF score >= 80 THEN "SAFE" ELSE IF score >= 50 THEN "MODERATE" ELSE "HIGH RISK"

\* the popup's table of score thresholds, without the colours
SCORE_THRESHOLDS ==
  [SAFE |-> [min |-> 80, label |-> "SAFE"],
   MODERATE |-> [min |-> 50, label |-> "MODERATE"],
   HIGH_RISK |-> [min |-> 0, label |-> "HIGH RISK"]]

\* the popup's getScoreConfig
getScoreConfig(score) ==
  IF score >= SCORE_THRESHOLDS.SAFE.min THEN SCORE_THRESHOLDS.SAFE
  ELSE IF score >= SCORE_THRESHOLDS.MODERATE.min THEN SCORE_THRESHOLDS.MODERATE
  ELSE SCORE_THRESHOLDS.HIGH_RISK

\* ------------------------------------------------------------------------
\* Masking functions
\* ------------------------------------------------------------------------
OverlayIds(reg) == UNION {{reg[u][i].id : i \in 1..Len(reg[u])} : u \in DOMAIN reg}

\* identity of a newly created element: the least id no live element has
NewId(st) ==
  LET used == st.bodyOverlays \cup OverlayIds(st.maskedElements)
  IN  CHOOSE n \in 1..(Cardinality(used) + 1) : n \notin used /\ \A m \in 1..(n - 1) : m \in used

createOverlay(id, rect, piiType) == [id |-> id, piiType |-> piiType, rect |-> rect]

addOverlay(st, element, rect, type) ==
  LET overlay == createOverlay(NewId(st), rect, type)
      reg == st.maskedElements
      old == IF element \in DOMAIN reg THEN reg[element] ELSE <<>>
  IN  [st EXCEPT !.bodyOverlays = @ \cup {overlay.id},
                 !.maskedElements = [u \in DOMAIN reg \cup {element} |->
                                       IF u = element THEN Append(old, overlay) ELSE reg[u]]]

RECURSIVE AddOverlays(_, _, _, _)
AddOverlays(st, element, rects, type) ==
  IF rects = <<>> THEN st
  ELSE AddOverlays(IF Head(rects).width > 0 /\ Head(rects).height > 0
                   THEN addOverlay(st, element, Head(rects), type) ELSE st,
                   element, Tail(rects), type)

\* a finding that is not located ends the loop over the findings
RECURSIVE maskElementStopAtMiss(_, _, _)
maskElementStopAtMiss(st, element, piiItems) ==
  IF piiItems = <<>> THEN st
  ELSE LET pii == Head(piiItems)
           text == textOf[element]
           index == IndexOf(text, pii.value)
           rects == GetClientRects(element, index, index + Len(pii.value),
                                   element \in attached, scrollY)
       IN  IF index = -1 THEN st
           ELSE maskElementStopAtMiss(AddOverlays(st, element, rects, pii.type),
                                      element, Tail(piiItems))

\* maskElement(element, piiItems, true)
RECURSIVE maskElement(_, _, _)
maskElement(st, element, piiItems) ==
  IF piiItems = <<>> THEN st
  ELSE LET pii == Head(piiItems)
           text == textOf[element]
           index == IndexOf(text, pii.value)
           rects == GetClientRects(element, index, index + Len(pii.value),
                                   element \in attached, scrollY)
       IN  maskElement(IF index = -1 THEN st ELSE AddOverlays(st, element, rects, pii.type),
                       element, Tail(piiItems))

\* the registry is emptied but its elements stay in the document
clearAllMasksLeaveElements(st) ==
  [st EXCEPT !.maskedElements = NoMasks,
             !.processedNodes = {},
             !.badge = FALSE]

\* the masks are removed but the processed registry is kept
clearAllMasksKeepProcessed(st) ==
  [st EXCEPT !.bodyOverlays = @ \ OverlayIds(st.maskedElements),
             !.maskedElements = NoMasks,
             !.badge = FALSE]

clearAllMasks(st) ==
  [st EXCEPT !.bodyOverlays = @ \ OverlayIds(st.maskedElements),
             !.maskedElements = NoMasks,
             !.processedNodes = {},
             !.badge = FALSE]

\* every unit is taken for detached
updateOverlayPositionsAllDetached(st) ==
  [st EXCEPT !.bodyOverlays = @ \ OverlayIds(st.maskedElements),
             !.maskedElements = NoMasks]

\* a unit that has left the document is skipped
updateOverlayPositionsKeepDetached(st) ==
  LET reg == st.maskedElements
  IN  [st EXCEPT
         !.maskedElements =
            [u \in DOMAIN reg |->
               LET rect == GetBoundingClientRect(u, Len(textOf[u]), u \in attached, scrollY)
               IN  IF u \in attached /\ rect.width > 0 /\ rect.height > 0
                   THEN [i \in 1..Len(reg[u]) |-> [reg[u][i] EXCEPT !.rect = rect]]
                   ELSE reg[u]]]

\* updateOverlayPositions: the overlays of a unit whose parent element has
\* left the document are removed with the unit's entry; the overlays of
\* every other unit are given the bounding rectangle of the unit's contents
updateOverlayPositions(st) ==
  LET reg == st.maskedElements
      kept == {u \in DOMAIN reg : u \in attached}
      gone == [u \in DOMAIN reg \ kept |-> reg[u]]
  IN  [st EXCEPT
         !.bodyOverlays = @ \ OverlayIds(gone),
         !.effects.pruned = @ \cup DOMAIN gone,
         !.maskedElements =
            [u \in kept |->
               LET rect == GetBoundingClientRect(u, Len(textOf[u]), TRUE, scrollY)
               IN  IF rect.width > 0 /\ rect.height > 0
                   THEN [i \in 1..Len(reg[u]) |-> [reg[u][i] EXCEPT !.rect = rect]]
                   ELSE reg[u]]]

\* the animation-frame callbacks that are due, run one after the other
RECURSIVE RunFrames(_, _)
RunFrames(st, n) == IF n = 0 THEN st ELSE RunFrames(updateOverlayPositions(st), n - 1)

\* ------------------------------------------------------------------------
\* The MutationObserver callback with its debounce timer
\* ------------------------------------------------------------------------
\* the callback for a batch of mutation records; shouldRescan says whether
\* some record qualifies
\* leading edge: a pending timer is not cancelled
ObserverCallbackNoClear(st, shouldRescan) ==
  IF st.observer /\ shouldRescan
  THEN [st EXCEPT !.rescanTimeout = IF @ = NoTimer THEN RESCAN_DELAY ELSE @, !.quiet = 0]
  ELSE st

ObserverCallback(st, shouldRescan) ==
  IF st.observer /\ shouldRescan
  THEN [st EXCEPT !.rescanTimeout = RESCAN_DELAY, !.quiet = 0]
  ELSE st

startObserver(st) == [st EXCEPT !.observer = TRUE]

\* ------------------------------------------------------------------------
\* PiiDetector.detectPII
\* ------------------------------------------------------------------------
FallbackTable == [t \in UNION Range(TextChoices) |-> regexFallback(t)]

\* detectPII up to its first suspension: what the call waits for
CallKind(st, text) ==
  IF ~st.detIsInitialized THEN "init"
  ELSE IF Trim(text) = <<>> THEN "empty"
  ELSE IF st.useRegexFallback \/ st.session = "null" THEN "fallback"
  ELSE "prompt"

\* the try block around session.prompt and JSON.parse without its catch
DetectResultNoCatch(kind, text, out) ==
  CASE kind = "empty" -> [how |-> "empty", ok |-> TRUE, items |-> <<>>]
    [] kind = "fallback" -> [how |-> "fallback", ok |-> TRUE, items |-> FallbackTable[text]]
    [] OTHER ->
         IF out.k = "json"
         THEN [how |-> "json", ok |-> TRUE,
               items |-> IF out.isArray THEN out.pii_found ELSE <<>>]
         ELSE [how |-> out.k, ok |-> FALSE, items |-> <<>>]

\* a pii_found that is not an array handled like a failed call
DetectResultNonArrayFails(kind, text, out) ==
  CASE kind = "empty" -> [how |-> "empty", ok |-> TRUE, items |-> <<>>]
    [] kind = "fallback" -> [how |-> "fallback", ok |-> TRUE, items |-> FallbackTable[text]]
    [] OTHER ->
         IF out.k = "json" /\ out.isArray
         THEN [how |-> "json", ok |-> TRUE, items |-> out.pii_found]
         ELSE [how |-> out.k, ok |-> TRUE, items |-> FallbackTable[text]]

\* detectPII from the resolution of what it waited for to its return:
\* how the call settled, whether it returned (ok) or rejected, and the list
DetectResult(kind, text, out) ==
  CASE kind = "empty" -> [how |-> "empty", ok |-> TRUE, items |-> <<>>]
    [] kind = "fallback" -> [how |-> "fallback", ok |-> TRUE, items |-> FallbackTable[text]]
    [] OTHER ->
         IF out.k = "json"
         THEN [how |-> "json", ok |-> TRUE,
               items |-> IF out.isArray THEN out.pii_found ELSE <<>>]
         ELSE [how |-> out.k, ok |-> TRUE, items |-> FallbackTable[text]]

\* ------------------------------------------------------------------------
\* Scanning functions
\* ------------------------------------------------------------------------
RemoveAt(s, k) == SubSeq(s, 1, k - 1) \o SubSeq(s, k + 1, Len(s))

\* the result of a completed pass, as compared between passes
Summary(st) ==
  [score |-> st.privacyScore, counts |-> st.piiCounts,
   masks |-> [u \in DOMAIN st.maskedElements |->
                [i \in 1..Len(st.maskedElements[u]) |->
                   [piiType |-> st.maskedElements[u][i].piiType,
                    rect |-> st.maskedElements[u][i].rect]]]]

LastTwo(s) == IF Len(s) > 2 THEN SubSeq(s, Len(s) - 1, Len(s)) ELSE s

\* history only: something the result of a scan depends on has changed
Disturb(st) == [st EXCEPT !.stable = [dirty |-> st.passes # <<>>, results |-> <<>>]]

\* what the caller of scanPage does when the promise settles: initDetector
\* starts the observer; the other callers change no state
Return(st, origin) ==
  IF origin = "init" THEN [startObserver(st) EXCEPT !.boot = "done"] ELSE st

updatePrivacyBadge(st) ==
  IF ~st.isEnabled THEN st
  ELSE ObserverCallback([st EXCEPT !.badge = TRUE], TRUE)

\* the message is sent only when something was found
updateBadgeIfFound(st, count) ==
  IF count = 0 THEN st
  ELSE [st EXCEPT !.effects.sent =
          Append(@, [type |-> "pii_detected", count |-> count,
                     privacyScore |-> st.privacyScore, piiCounts |-> st.piiCounts])]

\* updateBadge(count): chrome.runtime.sendMessage to the background
updateBadge(st, count) ==
  [st EXCEPT !.effects.sent =
     Append(@, [type |-> "pii_detected", count |-> count,
                privacyScore |-> st.privacyScore, piiCounts |-> st.piiCounts])]

\* scanPage after its loop: score, badge, telemetry; then the pass is over
Finish(st, k) ==
  LET pass == st.passes[k]
      rest == RemoveAt(st.passes, k)
      st1 == updateBadge(updatePrivacyBadge(calculatePrivacyScore(st)), pass.totalFound)
      st2 == [st1 EXCEPT !.passes = rest,
                         !.stable = IF ~st.stable.dirty /\ rest = <<>>
                                    THEN [dirty |-> FALSE,
                                          results |-> LastTwo(Append(st.stable.results,
                                                                     Summary(st1)))]
                                    ELSE [dirty |-> rest # <<>>, results |-> <<>>]]
  IN  Return(st2, pass.origin)

\* the first position at or after `from' whose node the loop does not skip,
\* or 0 when the loop ends
RECURSIVE NextIdx(_, _, _)
NextIdx(nodes, from, processed) ==
  IF from > Len(nodes) THEN 0
  ELSE IF nodes[from] \in processed
          \/ Len(Trim(textOf[nodes[from]])) < MIN_TEXT_LENGTH
       THEN NextIdx(nodes, from + 1, processed)
       ELSE from

\* the for loop of pass k from position `from' up to its next await
Advance(st, k, from) ==
  LET pass == st.passes[k]
      i == NextIdx(pass.nodes, from, st.processedNodes)
      text == textOf[pass.nodes[i]]
  IN  IF i = 0 THEN Finish(st, k)
      ELSE [st EXCEPT !.passes[k] = [pass EXCEPT !.idx = i, !.text = text,
                                                 !.wait = CallKind(st, text)]]

\* the filter on enabledFilters left out
FilterItemsAll(piiItems, filters) == piiItems

FilterItems(piiItems, filters) ==
  SelectSeq(piiItems, LAMBDA item : item.type \in DOMAIN filters /\ filters[item.type])

RECURSIVE CountItems(_, _)
CountItems(counts, items) ==
  IF items = <<>> THEN counts
  ELSE CountItems(IF Head(items).type \in DOMAIN counts
                  THEN [counts EXCEPT ![Head(items).type] = @ + 1] ELSE counts,
                  Tail(items))

\* the body of the for loop of pass k after detectPII has returned res.
\* piiItems and filteredItems (with the text and the way the call settled)
\* stay in the pass record until the next iteration replaces them.
LoopBody(st, k, res) ==
  LET pass == st.passes[k]
      node == pass.nodes[pass.idx]
      filteredItems == FilterItems(res.items, st.enabledFilters)
      st1 == IF filteredItems # <<>>
             THEN [maskElement(st, node, filteredItems) EXCEPT
                     !.passes[k].totalFound = @ + Len(filteredItems),
                     !.piiCounts = CountItems(@, filteredItems)]
             ELSE st
      st2 == [st1 EXCEPT !.processedNodes = @ \cup {node},
                         !.passes[k].how = res.how,
                         !.passes[k].called = pass.text,
                         !.passes[k].piiItems = res.items,
                         !.passes[k].filteredItems = filteredItems]
  IN  Advance(st2, k, pass.idx + 1)

\* detectPII rejected: the await throws and scanPage rejects; initDetector
\* catches it and does not start the observer
Abort(st, k) ==
  LET pass == st.passes[k]
      rest == RemoveAt(st.passes, k)
  IN  [st EXCEPT !.passes = rest,
                 !.boot = IF pass.origin = "init" THEN "done" ELSE @,
                 !.stable = [dirty |-> rest # <<>>, results |-> <<>>],
                 !.rejected = TRUE]

Resume(st, k, res) == IF res.ok THEN LoopBody(st, k, res) ELSE Abort(st, k)

\* the guard tests only the enabled flag
scanPageEnabledOnly(st, origin) ==
  IF ~st.isEnabled THEN Return(st, origin)
  ELSE LET st1 == resetPrivacyData(clearAllMasks(st))
           pass == [origin |-> origin, nodes |-> getTextNodes, idx |-> 0,
                    totalFound |-> 0, text |-> <<>>, wait |-> "none",
                    how |-> "none", called |-> <<>>, piiItems |-> <<>>,
                    filteredItems |-> <<>>]
           st2 == [st1 EXCEPT !.passes = Append(@, pass),
                              !.stable = IF st.passes = <<>>
                                         THEN [@ EXCEPT !.dirty = FALSE]
                                         ELSE [dirty |-> TRUE, results |-> <<>>]]
       IN  Advance(st2, Len(st2.passes), 1)

scanPage(st, origin) ==
  IF ~st.isEnabled \/ ~st.isInitialized THEN Return(st, origin)
  ELSE LET st1 == resetPrivacyData(clearAllMasks(st))
           pass == [origin |-> origin, nodes |-> getTextNodes, idx |-> 0,
                    totalFound |-> 0, text |-> <<>>, wait |-> "none",
                    how |-> "none", called |-> <<>>, piiItems |-> <<>>,
                    filteredItems |-> <<>>]
           st2 == [st1 EXCEPT !.passes = Append(@, pass),
                              !.stable = IF st.passes = <<>>
                                         THEN [@ EXCEPT !.dirty = FALSE]
                                         ELSE [dirty |-> TRUE, results |-> <<>>]]
       IN  Advance(st2, Len(st2.passes), 1)

\* ------------------------------------------------------------------------
\* Scheduling: the continuation of a resolved promise is a microtask and runs
\* before the next task (message, timer, page script, backend completion)
\* ------------------------------------------------------------------------
MicroPending == \E k \in 1..Len(passes) : passes[k].wait \in {"fallback", "empty"}

\* bounds the number of suspended passes
CanCallScanPage(st) == ~(st.isEnabled /\ st.isInitialized) \/ Len(st.passes) < MaxPasses

\* ------------------------------------------------------------------------
\* Startup: loadSettings().then(initDetector)
\* ------------------------------------------------------------------------
NoFilters == [t \in {} |-> TRUE]

\* what chrome.storage.sync holds; a failed read leaves the state as the
\* record without enabled and without filters does
StoredSettings ==
  {[enabled |-> e, filters |-> f] :
     e \in {"undefined", "true", "false"}, f \in {NoFilters, [t \in {"ssn"} |-> FALSE]}}

loadSettings(st, result) ==
  [st EXCEPT !.isEnabled = IF result.enabled # "undefined" THEN result.enabled = "true" ELSE @,
             !.enabledFilters = [t \in DOMAIN @ \cup DOMAIN result.filters |->
                                   IF t \in DOMAIN result.filters
                                   THEN result.filters[t] ELSE @[t]]]

\* initDetector after detector.init() has resolved
InitDetectorContinue(st) == scanPage([st EXCEPT !.isInitialized = TRUE], "init")

\* the catch block of PiiDetector.init without the finally block
InitFailedNotMarked(st) == [st EXCEPT !.useRegexFallback = TRUE]

\* the catch and finally blocks of PiiDetector.init
InitFailed(st) == [st EXCEPT !.useRegexFallback = TRUE, !.detIsInitialized = TRUE]

\* the end of the try block and the finally block of PiiDetector.init
InitAcquired(st) ==
  [st EXCEPT !.session = "session", !.useRegexFallback = FALSE, !.detIsInitialized = TRUE]

\* loadSettings resolves; initDetector creates the detector and init() calls
\* LanguageModel.availability
LoadSettings ==
  /\ boot = "settings"
  /\ \E result \in StoredSettings :
       Commit([loadSettings(Cur, result) EXCEPT !.boot = "availability",
                                                !.acquisitions = Min(@ + 1, 2)])
  /\ UNCHANGED <<attached, textOf, scrollY, model>>
  /\ UNCHANGED <<isScrolling, rafCallbacks, arg, ret, saved, popup>>

\* LanguageModel.availability settles
Availability ==
  /\ boot = "availability"
  /\ \E a \in {"available", "unavailable", "reject"} :
       IF a = "available"
       THEN Commit([Cur EXCEPT !.boot = "create"])
       ELSE Commit(InitDetectorContinue([InitFailed(Cur) EXCEPT !.boot = "scan"]))
  /\ UNCHANGED <<attached, textOf, scrollY, model>>
  /\ UNCHANGED <<isScrolling, rafCallbacks, arg, ret, saved, popup>>

\* LanguageModel.create settles; an acquired session answers prompts in one
\* of the ways of ModelBehaviours
Create ==
  /\ boot = "create"
  /\ \E resolved \in BOOLEAN :
       LET st == [Cur EXCEPT !.boot = "scan"]
       IN  IF resolved
           THEN /\ Commit(InitDetectorContinue(InitAcquired(st)))
                /\ model' \in ModelBehaviours
           ELSE /\ Commit(InitDetectorContinue(InitFailed(st)))
                /\ model' = model
  /\ UNCHANGED <<attached, textOf, scrollY>>
  /\ UNCHANGED <<isScrolling, rafCallbacks, arg, ret, saved, popup>>

\* ------------------------------------------------------------------------
\* Steps of a suspended pass
\* ------------------------------------------------------------------------
\* the continuation of a detectPII call that resolved without the backend
Microtask ==
  \E k \in 1..Len(passes) :
    /\ passes[k].wait \in {"fallback", "empty"}
    /\ Commit(Resume(Cur, k, DetectResult(passes[k].wait, passes[k].text, [k |-> "none"])))
    /\ UNCHANGED <<attached, textOf, scrollY, model>>
    /\ UNCHANGED <<isScrolling, rafCallbacks, arg, ret, saved, popup>>

\* the backend settles what pass k waits for: the prompt, or the acquisition
\* started by a detectPII call on a detector that is not initialized
BackendSettles ==
  /\ ~MicroPending
  /\ \E k \in 1..Len(passes) :
       /\ passes[k].wait \in {"prompt", "init"}
       /\ IF passes[k].wait = "prompt"
          THEN Commit(Resume(Cur, k, DetectResult("prompt", passes[k].text,
                                                  Prompt(model, passes[k].text))))
          ELSE \E acquired \in BOOLEAN :
                 LET st == [(IF acquired THEN InitAcquired(Cur) ELSE InitFailed(Cur))
                              EXCEPT !.acquisitions = Min(@ + 1, 2)]
                 IN  Commit([st EXCEPT !.passes[k].wait = CallKind(st, passes[k].text)])
  /\ UNCHANGED <<attached, textOf, scrollY, model>>
  /\ UNCHANGED <<isScrolling, rafCallbacks, arg, ret, saved, popup>>

\* ------------------------------------------------------------------------
\* chrome.runtime.onMessage handlers
\* ------------------------------------------------------------------------
FilterTypes == {"ssn"}

\* the handler sets the flag and clears, but starts no scan
toggleNoScan(st, enabled) ==
  LET st0 == IF enabled # st.isEnabled THEN Disturb(st) ELSE st
      st1 == [st0 EXCEPT !.isEnabled = enabled]
  IN  IF st1.isEnabled THEN st1 ELSE clearAllMasks(st1)

\* handlers.toggle
toggle(st, enabled) ==
  LET st0 == IF enabled # st.isEnabled THEN Disturb(st) ELSE st
      st1 == [st0 EXCEPT !.isEnabled = enabled]
  IN  IF st1.isEnabled THEN scanPage(st1, "none") ELSE clearAllMasks(st1)

\* handlers.filter_change
filter_change(st, piiType, enabled) ==
  LET st0 == IF st.enabledFilters[piiType] # enabled THEN Disturb(st) ELSE st
  IN  [st0 EXCEPT !.enabledFilters[piiType] = enabled]

\* handlers.rescan calls sendResponse when scanPage() has resolved: the
\* suspended passes whose completion a response waits for
PendingResponses(st) == {k \in 1..Len(st.passes) : st.passes[k].origin = "rescan"}

MsgToggle ==
  /\ ~MicroPending
  /\ \E enabled \in BOOLEAN :
       /\ enabled => CanCallScanPage([Cur EXCEPT !.isEnabled = enabled])
       /\ Commit(toggle(Cur, enabled))
  /\ UNCHANGED <<attached, textOf, scrollY, model>>
  /\ UNCHANGED <<isScrolling, rafCallbacks, arg, ret, saved, popup>>

MsgRescan ==
  /\ ~MicroPending
  /\ CanCallScanPage(Cur)
  /\ Commit(scanPage(Cur, "rescan"))
  /\ UNCHANGED <<attached, textOf, scrollY, model>>
  /\ UNCHANGED <<isScrolling, rafCallbacks, arg, ret, saved, popup>>

MsgFilterChange ==
  /\ ~MicroPending
  /\ \E piiType \in FilterTypes, enabled \in BOOLEAN :
       Commit(filter_change(Cur, piiType, enabled))
  /\ UNCHANGED <<attached, textOf, scrollY, model>>
  /\ UNCHANGED <<isScrolling, rafCallbacks, arg, ret, saved, popup>>

\* the filters the settings page can save
SavedFilters == {[t \in FilterTypes |-> e] : e \in BOOLEAN}

\* saveSettings of the settings page, after the startup read of this tab:
\* chrome.storage.sync.set, then chrome.tabs.sendMessage to the tab
SaveSettings ==
  /\ boot # "settings"
  /\ saved.notice # "sent"
  /\ \E filters \in SavedFilters : saved' = [filters |-> filters, notice |-> "sent"]
  /\ Commit(Cur)
  /\ UNCHANGED <<attached, textOf, scrollY, model>>
  /\ UNCHANGED <<isScrolling, rafCallbacks, arg, ret, popup>>

\* the listener receives {type: 'settings_updated'}: handlers has no such
\* key, so handlers[request.type]?.() is undefined and the listener returns
\* true
MsgSettingsUpdated ==
  /\ ~MicroPending
  /\ saved.notice = "sent"
  /\ saved' = [saved EXCEPT !.notice = "received"]
  /\ Commit(Cur)
  /\ UNCHANGED <<attached, textOf, scrollY, model>>
  /\ UNCHANGED <<isScrolling, rafCallbacks, arg, ret, popup>>

\* ------------------------------------------------------------------------
\* The popup's toggle handlers (src/popup.js)
\* ------------------------------------------------------------------------
\* handler invocations that can be suspended at once
MaxClicks == 2

\* the filter whose toggle is clicked
PopupFilter == "ssn"

NewHandler(p) == CHOOSE h \in 1..MaxClicks : h \notin DOMAIN p.handlers

WithHandler(p, h, rec) ==
  [p EXCEPT !.handlers = [i \in DOMAIN @ \cup {h} |-> IF i = h THEN rec ELSE @[i]]]

\* the handler returns; what it did is the popup's last outcome
Finished(p, h, failed) ==
  LET rec == p.handlers[h]
  IN  [p EXCEPT !.handlers = [i \in DOMAIN @ \ {h} |-> @[i]],
                !.last = [kind |-> rec.kind, failed |-> failed, before |-> rec.before,
                          display |-> IF rec.kind = "main" THEN p.main ELSE p.filter,
                          error |-> failed, sent |-> rec.sent]]

\* the catch block: toggleClass(toggle, 'active', !newState) and showError
Catch(p, h) ==
  LET rec == p.handlers[h]
  IN  Finished(IF rec.kind = "main"
               THEN [p EXCEPT !.main = ~rec.newState]
               ELSE [p EXCEPT !.filter = ~rec.newState], h, TRUE)

\* handleMainToggle up to await saveSettings({enabled: newState})
handleMainToggle(p) ==
  LET h == NewHandler(p)
      newState == ~p.main
      rec == [kind |-> "main", before |-> p.main, newState |-> newState,
              stage |-> "save", sent |-> <<>>]
  IN  [WithHandler(p, h, rec) EXCEPT !.main = newState, !.ops = Append(@, h)]

\* handleFilterToggle up to await chrome.storage.sync.get(['filters'])
handleFilterToggle(p) ==
  LET h == NewHandler(p)
      newState == ~p.filter
      rec == [kind |-> "filter", before |-> p.filter, newState |-> newState,
              stage |-> "get", sent |-> <<>>]
  IN  [WithHandler(p, h, rec) EXCEPT !.filter = newState, !.ops = Append(@, h)]

\* the oldest pending chrome.storage.sync call settles and its handler goes on
\* to its next await, or to its catch block
StorageSettled(p, ok) ==
  LET h == Head(p.ops)
      rec == p.handlers[h]
      p1 == [p EXCEPT !.ops = Tail(@)]
  IN  IF ~ok THEN Catch(p1, h)
      ELSE IF rec.stage = "get"
      THEN [WithHandler(p1, h, [rec EXCEPT !.stage = "save"]) EXCEPT !.ops = Append(@, h)]
      ELSE LET message == IF rec.kind = "main" THEN "toggle" ELSE "filter_change"
               p2 == IF rec.kind = "main"
                     THEN [p1 EXCEPT !.stored.enabled = rec.newState]
                     ELSE [p1 EXCEPT !.stored.filter = rec.newState]
           IN  [WithHandler(p2, h, [rec EXCEPT !.stage = message,
                                               !.sent = Append(@, message)])
                  EXCEPT !.tab = Append(@, h)]

\* the tab has answered the handler's message: handleMainToggle returns,
\* handleFilterToggle sends rescan and returns after its answer
TabAnswered(p) ==
  LET h == Head(p.tab)
      rec == p.handlers[h]
      p1 == [p EXCEPT !.tab = Tail(@)]
  IN  IF rec.stage = "filter_change"
      THEN [WithHandler(p1, h, [rec EXCEPT !.stage = "rescan", !.sent = Append(@, "rescan")])
              EXCEPT !.tab = Append(@, h)]
      ELSE Finished(p1, h, FALSE)

ClickMainToggle ==
  /\ Cardinality(DOMAIN popup.handlers) < MaxClicks
  /\ popup' = handleMainToggle(popup)
  /\ Commit(Cur)
  /\ UNCHANGED <<attached, textOf, scrollY, model>>
  /\ UNCHANGED <<isScrolling, rafCallbacks, arg, ret, saved>>

ClickFilterToggle ==
  /\ Cardinality(DOMAIN popup.handlers) < MaxClicks
  /\ popup' = handleFilterToggle(popup)
  /\ Commit(Cur)
  /\ UNCHANGED <<attached, textOf, scrollY, model>>
  /\ UNCHANGED <<isScrolling, rafCallbacks, arg, ret, saved>>

StorageSettles ==
  /\ popup.ops # <<>>
  /\ \E ok \in BOOLEAN : popup' = StorageSettled(popup, ok)
  /\ Commit(Cur)
  /\ UNCHANGED <<attached, textOf, scrollY, model>>
  /\ UNCHANGED <<isScrolling, rafCallbacks, arg, ret, saved>>

\* the content script's listener handles the oldest message the popup sent
\* and answers it
TabHandles ==
  /\ ~MicroPending
  /\ popup.tab # <<>>
  /\ LET rec == popup.handlers[Head(popup.tab)]
     IN  /\ CanCallScanPage([Cur EXCEPT !.isEnabled = rec.stage # "toggle" \/ rec.newState])
         /\ Commit(CASE rec.stage = "toggle" -> toggle(Cur, rec.newState)
                     [] rec.stage = "filter_change" ->
                          filter_change(Cur, PopupFilter, rec.newState)
                     [] OTHER -> scanPage(Cur, "rescan"))
  /\ popup' = TabAnswered(popup)
  /\ UNCHANGED <<attached, textOf, scrollY, model>>
  /\ UNCHANGED <<isScrolling, rafCallbacks, arg, ret, saved>>

\* ------------------------------------------------------------------------
\* The page changes its content; the observer callback runs as a microtask
\* ------------------------------------------------------------------------
PageEditsText ==
  /\ ~MicroPending
  /\ \E u \in Units, t \in UNION Range(TextChoices) :
       /\ t \in TextChoices[u]
       /\ t # textOf[u]
       /\ textOf' = [textOf EXCEPT ![u] = t]
  /\ Commit(ObserverCallback(Disturb(Cur), TRUE))
  /\ UNCHANGED <<attached, scrollY, model>>
  /\ UNCHANGED <<isScrolling, rafCallbacks, arg, ret, saved, popup>>

PageInsertsUnit ==
  /\ ~MicroPending
  /\ \E u \in Detachable \ attached : attached' = attached \cup {u}
  /\ Commit(ObserverCallback(Disturb(Cur), TRUE))
  /\ UNCHANGED <<textOf, scrollY, model>>
  /\ UNCHANGED <<isScrolling, rafCallbacks, arg, ret, saved, popup>>

\* a childList record without added nodes does not qualify
PageRemovesUnit ==
  /\ ~MicroPending
  /\ \E u \in Detachable \cap attached : attached' = attached \ {u}
  /\ Commit(ObserverCallback(Disturb(Cur), FALSE))
  /\ UNCHANGED <<textOf, scrollY, model>>
  /\ UNCHANGED <<isScrolling, rafCallbacks, arg, ret, saved, popup>>

\* ------------------------------------------------------------------------
\* Time and the debounce timer
\* ------------------------------------------------------------------------
TickMs == RESCAN_DELAY \div 2

\* d ms pass
Elapse(d) ==
  /\ ~MicroPending
  /\ rescanTimeout > 0 \/ quiet < RESCAN_DELAY
  /\ Commit([Cur EXCEPT !.rescanTimeout = IF @ = NoTimer THEN @ ELSE Max(0, @ - d),
                        !.quiet = Min(RESCAN_DELAY, @ + d)])
  /\ UNCHANGED <<attached, textOf, scrollY, model>>
  /\ UNCHANGED <<isScrolling, rafCallbacks, arg, ret, saved, popup>>

Tick == Elapse(TickMs)

QuietPeriod == Elapse(RESCAN_DELAY)

\* setTimeout(scanPage, CONFIG.RESCAN_DELAY) expires
TimerFires ==
  /\ ~MicroPending
  /\ rescanTimeout = 0
  /\ CanCallScanPage(Cur)
  /\ Commit(scanPage([Cur EXCEPT !.rescanTimeout = NoTimer], "none"))
  /\ UNCHANGED <<attached, textOf, scrollY, model>>
  /\ UNCHANGED <<isScrolling, rafCallbacks, arg, ret, saved, popup>>

\* ------------------------------------------------------------------------
\* Scroll and resize listeners
\* ------------------------------------------------------------------------
\* scroll positions of the viewport, in lines
MaxScroll == 1

\* animation frames the resize listener may have requested at a time
MaxCallbacks == 1

\* the viewport scrolls; the listener requests one frame until it has run
Scroll ==
  /\ ~MicroPending
  /\ \E y \in 0..MaxScroll : y # scrollY /\ scrollY' = y
  /\ isScrolling' = TRUE
  /\ Commit(Cur)
  /\ UNCHANGED <<attached, textOf, model, rafCallbacks, arg, ret, saved, popup>>

\* the window is resized; the listener requests a frame each time
Resize ==
  /\ ~MicroPending
  /\ rafCallbacks < MaxCallbacks
  /\ rafCallbacks' = rafCallbacks + 1
  /\ Commit(Cur)
  /\ UNCHANGED <<attached, textOf, scrollY, model, isScrolling, arg, ret, saved, popup>>

\* the browser runs the requested animation frames
AnimationFrame ==
  /\ ~MicroPending
  /\ isScrolling \/ rafCallbacks > 0
  /\ Commit(RunFrames(Cur, rafCallbacks + (IF isScrolling THEN 1 ELSE 0)))
  /\ isScrolling' = FALSE
  /\ rafCallbacks' = 0
  /\ UNCHANGED <<attached, textOf, scrollY, model, arg, ret, saved, popup>>

\* ------------------------------------------------------------------------
\* Functions called on their own
\* ------------------------------------------------------------------------
Tokens ==
  {<<"a", "@", "b", ".", "c", "o">>,
   <<"1", "2", "3", "-", "4", "5", "-", "6", "7", "8", "9">>,
   <<"5", "5", "5", "-", "1", "2", "3", "-", "4", "5", "6", "7">>,
   <<"4", "1", "1", "1", " ", "1", "1", "1", "1", " ", "1", "1", "1", "1", " ",
     "1", "1", "1", "1">>,
   [i \in 1..32 |-> IF i % 2 = 0 THEN "k" ELSE "7"],
   <<"a">>, <<"1">>, <<"-">>, <<".">>, <<" ">>, <<"@">>}

\* tokens in a text
MaxTokens == 3

Texts == {Flatten(ts) : ts \in UNION {[1..n -> Tokens] : n \in 0..MaxTokens}}

\* occurrences of one category on a page
MaxCount == 5

CountsMappings == [PiiTypeSet -> 0..MaxCount]

MaxScore == 100

CallRegexFallback ==
  /\ ~ret.called
  /\ ret' = [called |-> TRUE, value |-> regexFallback(arg)]
  /\ Commit(Cur)
  /\ UNCHANGED <<attached, textOf, scrollY, model, isScrolling, rafCallbacks, arg, saved, popup>>

\* calculatePrivacyScore() with state.piiCounts = arg
CallCalculatePrivacyScore ==
  /\ ~ret.called
  /\ Commit(calculatePrivacyScore([Cur EXCEPT !.piiCounts = arg]))
  /\ ret' = [called |-> TRUE, value |-> privacyScore']
  /\ UNCHANGED <<attached, textOf, scrollY, model, isScrolling, rafCallbacks, arg, saved, popup>>

\* getScoreColor() in the content script with state.privacyScore = arg
CallGetScoreColor ==
  /\ ret.content = NoCall
  /\ Commit([Cur EXCEPT !.privacyScore = arg])
  /\ ret' = [ret EXCEPT !.content = getScoreColor(privacyScore')]
  /\ UNCHANGED <<attached, textOf, scrollY, model, isScrolling, rafCallbacks, arg, saved, popup>>

\* getScoreConfig(arg) in the popup
\* a || b of JavaScript on numbers: b when a is 0
OrElse(a, b) == IF a = 0 THEN b ELSE a

\* the popup's updatePrivacyScore: the number and the label it displays
updatePrivacyScore(score) == [score |-> score, label |-> getScoreConfig(score).label]

\* the popup's updateStatusFromResponse: what the popup displays; a response
\* that was not received is null
updateStatusFromResponse(response) ==
  IF ~response.received
  THEN [status |-> "UNAVAILABLE", count |-> 0, privacy |-> updatePrivacyScore(MaxScore)]
  ELSE [status |-> IF response.initialized /\ response.enabled THEN "ACTIVE"
                   ELSE IF response.initialized /\ ~response.enabled THEN "DISABLED"
                   ELSE "LOADING",
        count |-> OrElse(response.maskedCount, 0),
        privacy |-> updatePrivacyScore(OrElse(response.privacyScore, MaxScore))]

\* the get_status responses of the content script, and none
Responses ==
  [received : BOOLEAN, enabled : BOOLEAN, initialized : BOOLEAN,
   maskedCount : 0..MaxCount, privacyScore : 0..MaxScore]

CallUpdateStatusFromResponse ==
  /\ ~ret.called
  /\ ret' = [called |-> TRUE, shown |-> updateStatusFromResponse(arg)]
  /\ Commit(Cur)
  /\ UNCHANGED <<attached, textOf, scrollY, model, isScrolling, rafCallbacks, arg, saved, popup>>

CallGetScoreConfig ==
  /\ ret.popup = NoCall
  /\ ret' = [ret EXCEPT !.popup = getScoreConfig(arg).label]
  /\ Commit(Cur)
  /\ UNCHANGED <<attached, textOf, scrollY, model, isScrolling, rafCallbacks, arg, saved, popup>>

\* ------------------------------------------------------------------------
\* Specifications
\* ------------------------------------------------------------------------
\* the scheduler under messages, page changes and timer expiry; time passes
\* a quiet period at a time
Next ==
  \/ LoadSettings
  \/ Availability
  \/ Create
  \/ Microtask
  \/ BackendSettles
  \/ MsgToggle
  \/ MsgRescan
  \/ MsgFilterChange
  \/ PageEditsText
  \/ PageInsertsUnit
  \/ PageRemovesUnit
  \/ QuietPeriod
  \/ TimerFires

Spec == Init /\ [][Next]_vars

\* the debounce timer under page changes, with time passing in half periods
NextDebounce ==
  \/ LoadSettings
  \/ Availability
  \/ Create
  \/ Microtask
  \/ BackendSettles
  \/ PageEditsText
  \/ PageInsertsUnit
  \/ PageRemovesUnit
  \/ Tick
  \/ TimerFires

SpecDebounce == Init /\ [][NextDebounce]_vars

\* masks under scrolling and resizing, with rescans and units leaving and
\* entering the document
NextScroll ==
  \/ LoadSettings
  \/ Availability
  \/ Create
  \/ Microtask
  \/ BackendSettles
  \/ MsgRescan
  \/ PageInsertsUnit
  \/ PageRemovesUnit
  \/ Scroll
  \/ Resize
  \/ AnimationFrame

SpecScroll == Init /\ [][NextScroll]_vars

\* the same with the extension toggled off and on
NextRegistry == NextScroll \/ MsgToggle

SpecRegistry == Init /\ [][NextRegistry]_vars

\* toggle and rescan messages on a page that does not change, with no timer
NextMessages ==
  \/ LoadSettings
  \/ Availability
  \/ Create
  \/ Microtask
  \/ BackendSettles
  \/ MsgToggle
  \/ MsgRescan

SpecMessages == Init /\ [][NextMessages]_vars

\* toggle, rescan and filter_change messages on a page that does not change
NextControl == NextMessages \/ MsgFilterChange

SpecControl == Init /\ [][NextControl]_vars

\* clicks on the popup's toggles while the content script is loading
NextPopup ==
  \/ ClickMainToggle
  \/ ClickFilterToggle
  \/ StorageSettles
  \/ TabHandles

SpecPopup == Init /\ [][NextPopup]_vars

\* the settings page saves while the tab is open
NextSettings ==
  \/ LoadSettings
  \/ Availability
  \/ Create
  \/ Microtask
  \/ BackendSettles
  \/ MsgFilterChange
  \/ SaveSettings
  \/ MsgSettingsUpdated

SpecSettings == Init /\ [][NextSettings]_vars

\* startup, detection and filter changes, for progress: the event loop always runs a
\* pending microtask and the storage read settles; nothing obliges the
\* language model to settle a call
NextLive ==
  \/ LoadSettings
  \/ Availability
  \/ Create
  \/ Microtask
  \/ BackendSettles
  \/ MsgFilterChange

\* weak fairness of Microtask, written out: Microtask is enabled exactly when
\* MicroPending holds, and each of its steps changes the pass it resumes
MicrotasksRun == []<>(~MicroPending) \/ []<><<Microtask>>_vars

SpecLive == Init /\ [][NextLive]_vars /\ WF_vars(LoadSettings) /\ MicrotasksRun

\* every trigger of a scan on a page that does not change: messages and the
\* debounce timer
NextTriggers ==
  \/ LoadSettings
  \/ Availability
  \/ Create
  \/ Microtask
  \/ BackendSettles
  \/ MsgToggle
  \/ MsgRescan
  \/ QuietPeriod
  \/ TimerFires

SpecTriggers == Init /\ [][NextTriggers]_vars

\* regexFallback on every text of Texts
InitRegexFallback == PageLoaded /\ arg \in Texts /\ ret = [called |-> FALSE]

SpecRegexFallback == InitRegexFallback /\ [][CallRegexFallback]_vars

\* calculatePrivacyScore on every counts mapping of CountsMappings
InitScore == PageLoaded /\ arg \in CountsMappings /\ ret = [called |-> FALSE]

SpecScore == InitScore /\ [][CallCalculatePrivacyScore]_vars

\* the two label functions on every score
InitLabel == PageLoaded /\ arg \in 0..MaxScore /\ ret = [content |-> NoCall, popup |-> NoCall]

NextLabel == CallGetScoreColor \/ CallGetScoreConfig

SpecLabel == InitLabel /\ [][NextLabel]_vars

\* updateStatusFromResponse on every response of Responses
InitStatus == PageLoaded /\ arg \in Responses /\ ret = [called |-> FALSE]

SpecStatus == InitStatus /\ [][CallUpdateStatusFromResponse]_vars

\* ------------------------------------------------------------------------
\* Properties
\* ------------------------------------------------------------------------
\* number of overlays of category t in the registry
TypeCount(reg, t) ==
  SeqSum([u \in 1..Len(ParentTag) |->
            IF u \in DOMAIN reg
            THEN Len(SelectSeq(reg[u], LAMBDA o : o.piiType = t)) ELSE 0])

PassStarts == Len(passes') > Len(passes)

PassEnds == Len(passes') < Len(passes)

\* C1: at most one scan pass is in flight at any time; a trigger that
\* arrives while a pass is suspended on the detector starts no second pass.
C1_AtMostOnePass == Len(passes) <= 1

\* C2: while the extension is disabled the overlay registry is empty and no
\* mask element is attached, also when a pass was suspended at the toggle.
C2_DisabledNoMasks == ~isEnabled => (maskedElements = NoMasks /\ bodyOverlays = {})

\* C3: in no step does a category that is disabled in enabledFilters when
\* the step is taken gain a mask or a count.
C3_FilterSuppression ==
  [][\A t \in PiiTypeSet :
       ~enabledFilters[t] =>
         /\ piiCounts'[t] <= piiCounts[t]
         /\ TypeCount(maskedElements', t) <= TypeCount(maskedElements, t)]_vars

\* a pass has processed a unit for which the detector returned a finding of
\* a disabled category, and has dropped it
C3_Witness ==
  \E k \in 1..Len(passes) :
    /\ \E i \in 1..Len(passes[k].piiItems) : passes[k].piiItems[i].type = "ssn"
    /\ passes[k].filteredItems # <<>>
    /\ \A i \in 1..Len(passes[k].filteredItems) : passes[k].filteredItems[i].type # "ssn"

\* C4: two passes run to completion in a row, alone, on unchanged content
\* and settings, give the same score, the same counts and the same masks
\* (category and rectangle) for every unit.
C4_Idempotent == Len(stable.results) = 2 => stable.results[1] = stable.results[2]

C4_Witness ==
  /\ Len(stable.results) = 2
  /\ stable.results[2].masks # NoMasks
  /\ stable.results[2].score < 100

\* C5: the step that starts a pass leaves the masks cleared and the privacy
\* state reset, with no unit of the pass processed yet; the score is
\* computed from the accumulated counts in the step that ends a pass, and in
\* no other step in between.
C5_PassOrder ==
  [][/\ PassStarts =>
          /\ maskedElements' = NoMasks /\ bodyOverlays' = {}
          /\ piiCounts' = ZeroCounts /\ privacyScore' = 100
          /\ passes'[Len(passes')].piiItems = <<>>
          /\ passes'[Len(passes')].totalFound = 0
     /\ PassEnds => privacyScore' = ScoreOf(piiCounts')
     /\ (~PassStarts /\ ~PassEnds) => privacyScore' = privacyScore]_vars

\* a pass has run to completion and has found something
C5_Witness == passes = <<>> /\ processedNodes # {} /\ piiCounts # ZeroCounts /\ badge

\* C6: whenever no pass is in flight, the score is the Scorer's value for
\* the current counts.
C6_NoStaleScore == passes = <<>> => privacyScore = ScoreOf(piiCounts)

C6_Witness == passes = <<>> /\ isInitialized /\ privacyScore < 100

\* C7: a pending timer expires RESCAN_DELAY after the last qualifying
\* mutation the observer saw, and a scan is started by the timer only after
\* a full quiet period, the timer being spent by it.
C7_TrailingDebounce ==
  /\ [](rescanTimeout # NoTimer => rescanTimeout = RESCAN_DELAY - quiet)
  /\ [][(PassStarts /\ boot = "done") =>
          (rescanTimeout = 0 /\ quiet >= RESCAN_DELAY /\ rescanTimeout' = NoTimer)]_vars

\* a scan started by the timer is in flight
C7_Witness == boot = "done" /\ observer /\ passes # <<>> /\ rescanTimeout = NoTimer

\* C8: handling toggle{enabled:false} leaves the processed registry, the
\* counts and the score unchanged.
C8_ToggleOffFrame ==
  [][(isEnabled /\ ~isEnabled') =>
       /\ processedNodes' = processedNodes
       /\ piiCounts' = piiCounts
       /\ privacyScore' = privacyScore]_vars

\* C9: no detectPII call rejects, and a call whose model path failed (or
\* that ran in fallback mode) returns the findings of the patterns.
C9_DetectNeverThrows ==
  /\ ~rejected
  /\ \A k \in 1..Len(passes) :
       passes[k].how \in {"reject", "garbage", "fallback"} =>
         passes[k].piiItems = FallbackTable[passes[k].called]

\* a prompt has rejected and the call has returned the patterns' findings
C9_Witness ==
  \E k \in 1..Len(passes) : passes[k].how = "reject" /\ passes[k].piiItems # <<>>

\* C10: acquisition is attempted at most once; once the detector is
\* initialized nothing re-runs it; fallback mode, once entered, stays, and
\* no call waits for session.prompt in it.
C10_AcquireOnce ==
  /\ [](acquisitions <= 1)
  /\ []((detIsInitialized /\ useRegexFallback) =>
          \A k \in 1..Len(passes) : passes[k].wait # "prompt" /\ passes[k].how \notin {"json", "reject", "garbage"})
  /\ [][detIsInitialized =>
          /\ acquisitions' = acquisitions
          /\ detIsInitialized'
          /\ useRegexFallback' = useRegexFallback
          /\ session' = session]_vars

\* a detectPII call has returned in fallback mode after a failed acquisition
C10_Witness ==
  /\ detIsInitialized /\ useRegexFallback /\ session = "null"
  /\ \E k \in 1..Len(passes) : passes[k].how = "fallback"

\* ------------------------------------------------------------------------
\* A step of a pass, as seen by the properties
\* ------------------------------------------------------------------------
\* the step is the continuation of pass k after its detectPII call settled
Resumed(k) ==
  /\ k \in 1..Len(passes)
  /\ passes[k].wait \in {"fallback", "empty", "prompt"}
  /\ \/ passes' = RemoveAt(passes, k)
     \/ /\ Len(passes') = Len(passes)
        /\ passes'[k] # passes[k]
        /\ \A j \in 1..Len(passes) : j # k => passes'[j] = passes[j]

\* what the detectPII call pass k waits for returns
Settled(k) == DetectResult(passes[k].wait, passes[k].text, Prompt(model, passes[k].text))

\* the Finding invariant
Valid(f, text) ==
  /\ 0 <= f.start /\ f.start < f.end /\ f.end <= Len(text)
  /\ f.value = Slice(text, f.start, f.end)

\* category and rectangle of the masks of unit u
MaskList(reg, u) ==
  IF u \in DOMAIN reg
  THEN [i \in 1..Len(reg[u]) |-> [piiType |-> reg[u][i].piiType, rect |-> reg[u][i].rect]]
  ELSE <<>>

\* one mask per visible rectangle of the span [a, b) of unit u
SpanMasks(u, type, a, b, sy) ==
  LET rects == SelectSeq(GetClientRects(u, a, b, u \in attached, sy),
                         LAMBDA r : r.width > 0 /\ r.height > 0)
  IN  [n \in 1..Len(rects) |-> [piiType |-> type, rect |-> rects[n]]]

\* the masks of the findings among items whose value the text of unit u
\* holds, each at the first occurrence of its value
LocatedMasks(u, items, sy) ==
  Flatten([n \in 1..Len(items) |->
    LET index == IndexOf(textOf[u], items[n].value)
    IN  IF index = -1 THEN <<>>
        ELSE SpanMasks(u, items[n].type, index, index + Len(items[n].value), sy)])

\* C11 as stated: a prompt that rejects, returns unparsable output or
\* returns a pii_found that is not an array makes detectPII return the empty
\* list, and the next call of the pass still goes to the model session.
C11_ChunkFailureEmpty ==
  \A k \in 1..Len(passes) :
    (passes[k].how \in {"reject", "garbage"} \/ (passes[k].how = "json" /\ model = "notArray")) =>
      /\ passes[k].piiItems = <<>>
      /\ passes[k].wait = "prompt" /\ session = "session" /\ ~useRegexFallback

\* C11 amended: a prompt that rejects or returns unparsable output makes
\* detectPII return the findings of the patterns for that text, a pii_found
\* that is not an array makes it return the empty list, and in each case the
\* next call of the pass still goes to the model session.
C11_ChunkFailureLocal ==
  \A k \in 1..Len(passes) :
    /\ passes[k].how \in {"reject", "garbage"} =>
         /\ passes[k].piiItems = FallbackTable[passes[k].called]
         /\ passes[k].wait = "prompt" /\ session = "session" /\ ~useRegexFallback
    /\ (passes[k].how = "json" /\ model = "notArray") =>
         /\ passes[k].piiItems = <<>>
         /\ passes[k].wait = "prompt" /\ session = "session" /\ ~useRegexFallback

\* a prompt has returned unparsable output, the call has returned findings
\* and the pass waits for the prompt of its next unit
C11_Witness ==
  \E k \in 1..Len(passes) :
    passes[k].how = "garbage" /\ passes[k].piiItems # <<>> /\ passes[k].wait = "prompt"

\* C12: a finding that breaks 0 <= start < end <= length(text) or
\* value = text[start:end] gets no mask and adds nothing to the counts or to
\* the total of the pass: the step that processes a unit masks and counts
\* the valid findings only.
C12_InvalidDiscarded ==
  [][\A k \in 1..Len(passes) :
       Resumed(k) =>
         LET node == passes[k].nodes[passes[k].idx]
             valid == SelectSeq(FilterItems(Settled(k).items, enabledFilters),
                                LAMBDA f : Valid(f, passes[k].text))
         IN  /\ piiCounts' = CountItems(piiCounts, valid)
             /\ Len(passes') = Len(passes) =>
                  passes'[k].totalFound = passes[k].totalFound + Len(valid)
             /\ MaskList(maskedElements', node)
                  = MaskList(maskedElements, node) \o LocatedMasks(node, valid, scrollY)]_vars

\* C13: after a pass that ran alone on unchanged content, every valid
\* finding of an enabled category the detector returns for a unit is covered
\* at its own span: each visible rectangle of [start, end) carries a mask of
\* its category.
C13_SpanLocation ==
  (stable.results # <<>> /\ passes = <<>>) =>
    \A n \in 1..Len(getTextNodes) :
      LET u == getTextNodes[n]
          res == DetectResult(CallKind(Cur, textOf[u]), textOf[u], Prompt(model, textOf[u]))
          valid == SelectSeq(FilterItems(res.items, enabledFilters),
                             LAMBDA f : Valid(f, textOf[u]))
      IN  \A i \in 1..Len(valid) :
            LET want == SpanMasks(u, valid[i].type, valid[i].start, valid[i].end, scrollY)
            IN  \A j \in 1..Len(want) :
                  \E m \in 1..Len(MaskList(maskedElements, u)) :
                    MaskList(maskedElements, u)[m] = want[j]

\* C14: the step that processes a unit masks every finding whose value the
\* unit's current text holds, whatever findings before it were not located,
\* marks the unit processed and goes on; no detectPII or maskElement failure
\* ends the pass.
C14_GeometryMissLocal ==
  /\ [](~rejected)
  /\ [][\A k \in 1..Len(passes) :
          Resumed(k) =>
            LET node == passes[k].nodes[passes[k].idx]
                items == FilterItems(Settled(k).items, enabledFilters)
            IN  /\ MaskList(maskedElements', node)
                     = MaskList(maskedElements, node) \o LocatedMasks(node, items, scrollY)
                /\ node \in processedNodes'
                /\ Len(passes') = Len(passes) => passes'[k].idx > passes[k].idx]_vars

\* a pass has processed its first unit, the first finding's value was not in
\* the unit's text, a later finding was masked, and the pass waits for the
\* detector on its next unit
C14_Witness ==
  \E k \in 1..Len(passes) :
    /\ passes[k].idx = 2 /\ passes[k].wait = "prompt"
    /\ Len(passes[k].filteredItems) >= 2
    /\ IndexOf(passes[k].called, passes[k].filteredItems[1].value) = -1
    /\ MaskList(maskedElements, passes[k].nodes[1]) # <<>>

\* C15: every finding regexFallback returns for a text has
\* 0 <= start < end <= length(text) and value = text[start:end].
C15_FallbackSpans ==
  ret.called => \A i \in 1..Len(ret.value) : Valid(ret.value[i], arg)

\* regexFallback has returned several findings, one of them an ssn that
\* does not start the text
C15_Witness ==
  /\ ret.called /\ Len(ret.value) >= 2
  /\ \E i \in 1..Len(ret.value) : ret.value[i].type = "ssn" /\ ret.value[i].start > 0

\* C16: the score is the reference formula's value: 100 minus, for each
\* category found, its weight and, when found more than once, a further
\* min((count - 1) * weight * 0.3, weight), clamped to [0, 100] and rounded
\* to a nearest integer; no findings give 100, one password 75, two ssn 74.
C16_ReferenceScore ==
  ret.called =>
    LET P(t, w) == IF arg[t] > 0
                   THEN 10 * w + (IF arg[t] > 1 THEN Min((arg[t] - 1) * w * 3, 10 * w) ELSE 0)
                   ELSE 0
        tenths == 1000 - (P("password", 25) + P("ssn", 20) + P("credit_card", 20)
                          + P("api_key", 15) + P("address", 10) + P("email", 10)
                          + P("phone", 8))
        clamped == Max(0, Min(1000, tenths))
    IN  /\ 10 * ret.value - 5 <= clamped /\ clamped <= 10 * ret.value + 5
        /\ arg = ZeroCounts => ret.value = 100
        /\ arg = [ZeroCounts EXCEPT !["password"] = 1] => ret.value = 75
        /\ arg = [ZeroCounts EXCEPT !["ssn"] = 2] => ret.value = 74

C16_Witness == ret.called /\ arg = [ZeroCounts EXCEPT !["ssn"] = 2] /\ ret.value = 74

\* C17: the score is an integer of 0..100, and one more finding of any one
\* category never gives a higher score.
C17_Monotone ==
  ret.called =>
    /\ ret.value \in 0..100
    /\ \A t \in PiiTypeSet :
         calculatePrivacyScore([Cur EXCEPT !.piiCounts = [arg EXCEPT ![t] = @ + 1]]).privacyScore
           <= ret.value

\* the score of a counts mapping is clamped at 0 although a category is
\* still without findings
C17_Witness == ret.called /\ ret.value = 0 /\ \E t \in PiiTypeSet : arg[t] = 0

\* C18: the label is SAFE iff score >= 80, MODERATE iff 50 <= score < 80 and
\* HIGH RISK iff score < 50, in the content script and in the popup, which
\* give the same label for the same score.
C18_Labels ==
  LET Right(label) ==
        /\ label = "SAFE" <=> arg >= 80
        /\ label = "MODERATE" <=> (50 <= arg /\ arg < 80)
        /\ label = "HIGH RISK" <=> arg < 50
  IN  /\ ret.content # NoCall => Right(ret.content)
      /\ ret.popup # NoCall => Right(ret.popup)
      /\ (ret.content # NoCall /\ ret.popup # NoCall) => ret.content = ret.popup

C18_Witness == arg = 80 /\ ret.content = "SAFE" /\ ret.popup = "SAFE"

\* the step runs the requested animation frames
FrameRuns == (isScrolling \/ rafCallbacks > 0) /\ ~isScrolling' /\ rafCallbacks' = 0

\* C19: updateOverlayPositions keeps, for every unit still in the document,
\* the unit's mask elements: the same elements in the same order, attached
\* as before; it creates no element and changes nothing but geometry.
C19_RepositionKeepsMasks ==
  [][FrameRuns =>
       /\ \A u \in DOMAIN maskedElements \cap attached :
            /\ u \in DOMAIN maskedElements'
            /\ Len(maskedElements'[u]) = Len(maskedElements[u])
            /\ \A i \in 1..Len(maskedElements[u]) :
                 /\ maskedElements'[u][i].id = maskedElements[u][i].id
                 /\ maskedElements'[u][i].piiType = maskedElements[u][i].piiType
                 /\ maskedElements[u][i].id \in bodyOverlays' <=>
                      maskedElements[u][i].id \in bodyOverlays
       /\ DOMAIN maskedElements' \subseteq DOMAIN maskedElements
       /\ bodyOverlays' \subseteq bodyOverlays
       /\ processedNodes' = processedNodes
       /\ piiCounts' = piiCounts /\ privacyScore' = privacyScore]_vars

\* a unit in the document carries a mask that a reposition has resized
C19_Witness ==
  \E u \in DOMAIN maskedElements \cap attached :
    \E i \in 1..Len(maskedElements[u]) :
      /\ maskedElements[u][i].rect.height > 1
      /\ maskedElements[u][i].id \in bodyOverlays

\* C20: after updateOverlayPositions has run on the masks of a pass that
\* ran alone on unchanged content, every mask has the current rectangle of
\* the span of its own finding.
C20_RepositionAligned ==
  [][(FrameRuns /\ stable.results # <<>> /\ passes = <<>>) =>
       \A u \in DOMAIN maskedElements' :
         LET res == DetectResult(CallKind(Cur, textOf[u]), textOf[u], Prompt(model, textOf[u]))
         IN  MaskList(maskedElements', u)
               = LocatedMasks(u, FilterItems(res.items, enabledFilters), scrollY')]_vars

\* C21: a step that runs updateOverlayPositions or starts a scan pass leaves
\* no unit that is out of the document with a registry entry or with one of
\* its mask elements attached, and no later step gives such a unit masks.
C21_DetachedCleanup ==
  /\ [][(FrameRuns \/ PassStarts) =>
          \A u \in Units \ attached :
            /\ u \notin DOMAIN maskedElements'
            /\ u \in DOMAIN maskedElements =>
                 \A i \in 1..Len(maskedElements[u]) :
                   maskedElements[u][i].id \notin bodyOverlays']_vars
  /\ [][\A u \in Units \ attached' :
          u \in DOMAIN maskedElements' => u \in DOMAIN maskedElements]_vars

\* updateOverlayPositions has just removed the masks and the entry of a
\* unit that left the document
C21_Witness ==
  \E u \in effects.pruned : u \notin attached /\ u \notin DOMAIN maskedElements

\* C22: the mask elements recorded in state.maskedElements are exactly the
\* mask elements attached to the document.
C22_RegistryInvariant == OverlayIds(maskedElements) = bodyOverlays

\* masks are attached while the extension is off and a pass is suspended,
\* or right after a reposition pruned a unit
C22_Witness ==
  /\ bodyOverlays # {}
  /\ (~isEnabled /\ passes # <<>>) \/ effects.pruned # {}

\* ------------------------------------------------------------------------
\* What one pass, run alone on the current content and settings, leaves
\* ------------------------------------------------------------------------
\* the findings of enabled categories detectPII returns for unit u
EnabledFindings(u) ==
  FilterItems(DetectResult(CallKind(Cur, textOf[u]), textOf[u], Prompt(model, textOf[u])).items,
              enabledFilters)

OnePassCounts ==
  CountItems(ZeroCounts, Flatten([n \in 1..Len(getTextNodes) |-> EnabledFindings(getTextNodes[n])]))

OnePass ==
  LET masked == {u \in Range(getTextNodes) : LocatedMasks(u, EnabledFindings(u), scrollY) # <<>>}
  IN  [score |-> ScoreOf(OnePassCounts), counts |-> OnePassCounts,
       masks |-> [u \in masked |-> LocatedMasks(u, EnabledFindings(u), scrollY)]]

\* the state of the core that messages are compared on
Core(st) ==
  [enabled |-> st.isEnabled, filters |-> st.enabledFilters, result |-> Summary(st)]

\* C23: no acknowledgement of a control message waits for a scan pass: no
\* suspended pass holds the response of the message that started it.
C23_ImmediateAck == PendingResponses(Cur) = {}

\* C24: once no pass is in flight, the enabled core is in the state one
\* pass alone leaves, however many toggle{enabled:true} and rescan messages
\* were handled; handling toggle{enabled:false} or a filter_change a second
\* time changes nothing.
C24_MessagesIdempotent ==
  /\ (passes = <<>> /\ boot = "done" /\ isEnabled /\ isInitialized) => Summary(Cur) = OnePass
  /\ Core(toggle(toggle(Cur, FALSE), FALSE)) = Core(toggle(Cur, FALSE))
  /\ \A t \in PiiTypeSet, e \in BOOLEAN :
       Core(filter_change(filter_change(Cur, t, e), t, e)) = Core(filter_change(Cur, t, e))

C26_SettingsReread ==
  saved.notice = "received" =>
    \A t \in DOMAIN saved.filters : enabledFilters[t] = saved.filters[t]

\* ------------------------------------------------------------------------
\* C27: a trigger handled while the core is enabled, initialized and idle
\* starts a scan pass: the initial load, a rescan message, a filter_change
\* message, and toggle{enabled: true}.
\* ------------------------------------------------------------------------
InitialLoad == ~isInitialized /\ isInitialized' /\ isEnabled'

C27_TriggersStartPass ==
  [][(/\ passes = <<>>
      /\ \/ InitialLoad
         \/ isEnabled /\ isInitialized /\ MsgRescan
         \/ isEnabled /\ isInitialized /\ MsgFilterChange
         \/ isInitialized /\ MsgToggle /\ isEnabled') => PassStarts]_vars

\* C27 as amended: the initial load, a rescan message and toggle{enabled:
\* true} handled while the core is enabled, initialized and idle start a scan
\* pass; a filter_change message changes the filter and starts no pass.
C27_TriggersStartPassAmended ==
  [][/\ (/\ passes = <<>>
         /\ \/ InitialLoad
            \/ isEnabled /\ isInitialized /\ MsgRescan
            \/ isInitialized /\ MsgToggle /\ isEnabled') => PassStarts
     /\ MsgFilterChange =>
          /\ passes' = passes
          /\ \E t \in FilterTypes : \A c \in PiiTypeSet \ {t} :
               enabledFilters'[c] = enabledFilters[c]]_vars

\* a rescan message handled while idle has started the only pass in flight
C27_Witness ==
  /\ boot = "done" /\ isEnabled /\ Len(passes) = 1
  /\ passes[1].origin = "rescan" /\ ~stable.dirty

\* ------------------------------------------------------------------------
\* C28: every scan pass that starts eventually completes, whether or not the
\* language model ever settles a detection call.
\* ------------------------------------------------------------------------
C28_PassCompletes == (passes # <<>>) ~> (passes = <<>>)

\* ------------------------------------------------------------------------
\* C29: on a page whose content does not change, the completion of a scan
\* pass schedules no further scan: the elements the pass adds to the document
\* leave the debounce timer as it was.
\* ------------------------------------------------------------------------
C29_PassSchedulesNothing == [][PassEnds => rescanTimeout' = rescanTimeout]_vars

\* ------------------------------------------------------------------------
\* C30: on unchanged content, whenever no pass is in flight and a pass has
\* completed, each category's count is the number of enabled findings of the
\* detector over the extracted units, and no unit has more masks than one
\* pass places on it.
\* ------------------------------------------------------------------------
C30_CountsMatchContent ==
  (passes = <<>> /\ isEnabled /\ isInitialized /\ badge) =>
    /\ \A c \in PiiTypeSet : piiCounts[c] = OnePassCounts[c]
    /\ \A u \in DOMAIN maskedElements :
         Len(maskedElements[u]) <= Len(LocatedMasks(u, EnabledFindings(u), scrollY))

\* ------------------------------------------------------------------------
\* C31: for a received get_status response the popup displays the reported
\* privacyScore and the label of that score; it displays 100 / SAFE only when
\* no response was received.
\* ------------------------------------------------------------------------
C31_PopupShowsReported ==
  ret.called =>
    IF arg.received
    THEN /\ ret.shown.privacy.score = arg.privacyScore
         /\ ret.shown.privacy.label = getScoreConfig(arg.privacyScore).label
    ELSE ret.shown.privacy = [score |-> MaxScore, label |-> "SAFE"]

\* ------------------------------------------------------------------------
\* C32: while the core is disabled or not initialized, scanPage changes
\* nothing: a rescan message, a timer expiry or toggle{enabled: true} handled
\* then leaves masks, processed nodes, counts and score as they were, starts
\* no pass (so calls no detector) and sends no telemetry.
\* ------------------------------------------------------------------------
Blocked == ~isEnabled \/ ~isInitialized

C32_BlockedScanNoOp ==
  /\ [](Blocked => scanPage(Cur, "rescan") = Cur /\ scanPage(Cur, "none") = Cur)
  /\ [][(\/ Blocked /\ (MsgRescan \/ TimerFires)
         \/ ~isInitialized /\ MsgToggle /\ isEnabled') =>
          /\ maskedElements' = maskedElements
          /\ bodyOverlays' = bodyOverlays
          /\ processedNodes' = processedNodes
          /\ piiCounts' = piiCounts
          /\ privacyScore' = privacyScore
          /\ passes' = passes
          /\ effects'.sent = <<>>]_vars

\* the debounce timer has expired on a disabled core that has scanned before
C32_Witness ==
  /\ ~isEnabled /\ isInitialized /\ observer
  /\ rescanTimeout = 0 /\ passes = <<>>

\* ------------------------------------------------------------------------
\* C33: a toggle handler whose storage call failed has put its toggle back to
\* what it showed before the click, has shown an error and has sent no
\* message to the tab; and whenever no handler is running, the toggles, the
\* stored settings and the core agree.
\* ------------------------------------------------------------------------
PopupIdle == DOMAIN popup.handlers = {}

C33_FailedSaveReverts ==
  /\ popup.last.failed =>
       /\ popup.last.display = popup.last.before
       /\ popup.last.error
       /\ popup.last.sent = <<>>
  /\ PopupIdle =>
       /\ popup.main = popup.stored.enabled /\ popup.stored.enabled = isEnabled
       /\ popup.filter = popup.stored.filter
       /\ popup.stored.filter = enabledFilters[PopupFilter]

====
